---- MODULE Spec2Model ----
(***************************************************************************)
(* A model of the two collector scripts of the repository:                *)
(*   news_collector.py        RSS feeds -> Gemini -> Notion                *)
(*   indicators_collector.py  market indicators -> Google Sheets           *)
(* Strings whose characters matter are sequences of one-character strings. *)
(***************************************************************************)
EXTENDS Integers, Sequences, FiniteSets, TLC

\* ---------------------------------------------------------------- bounds
\* Number of feeds of RSS_FEEDS that a run walks through.
NumFeeds == 2
\* Largest number of entries one fetched feed yields.
MaxEntries == 2
\* entries of each feed in the runs of SpecLimit (RSS_FEEDS has 14 feeds, a
\* feed has ten or more entries)
LongFeed == 8
\* the count of duplicate-check queries stops here
MaxQueries == 4
\* longest classifier field value given to clean_multi_select in SpecTags
MaxTagLen == 4
\* longest language tag after an opening code fence in SpecFence
MaxFenceTag == 2

\* ------------------------------------------------------ program constants
\* news_collector.main: total_limit = 15
total_limit == 15
\* news_collector.save_to_notion: max_retries = 3
max_retries == 3
\* news_collector.save_to_notion: time.sleep(5) between failed attempts
RetrySleep == 5
\* news_collector.main: if processed_count % 3 == 0
LongSleepEvery == 3
\* news_collector.main: time.sleep(60)
LongSleep == 60
\* news_collector.main: time.sleep(15) at the end of an entry's iteration
ArticleSleep == 15

\* quota_streak counts consecutive quota errors up to this number
MaxStreak == 3
\* indicators_collector.write_bulk: for attempt in range(3)
AppendAttempts == 3
\* indicators_collector.write_bulk: wait = 60 * (attempt + 1)
SheetsBackoff == 60
\* indicators_collector.write_bulk: if len(all_values) < 3: return
MinSortRows == 3
\* indicators_collector.collect_and_write: the eight indicator blocks
NumIndicators == 8

VARIABLES
    script,          \* which script this run executes
    pc,              \* position of the run in the script
    missing,         \* the required configuration values that are not set
    exit_status,     \* "running", "0" or "1"
    net_used,        \* TRUE once any network call has been attempted
    logged,          \* the key log lines printed so far
    feed,            \* number of feeds of RSS_FEEDS started so far
    fetch_status,    \* outcome of the fetch of the current feed
    remaining,       \* entries of the current feed not yet examined
    data,            \* the candidate being processed (main's `data`)
    page,            \* page_text of the candidate, by class
    result,          \* analysis result of the candidate
    processed_count, \* main's processed_count
    true_saves,      \* number of save_to_notion calls that returned True
    cooldown,        \* the sleeps main made after the latest save that returned True
    dedup_queries,   \* duplicate-check queries sent to the store in this run
    store,           \* the Notion database: link -> number of records
    ran,             \* stages invoked for the latest candidate
    dup,             \* what is_duplicate returned for the latest candidate
    rel,             \* what the model answered in its relevance check
    saved,           \* what save_to_notion returned for the latest candidate
    quota_streak,    \* consecutive classifier calls that raised quota-exceeded
    sv,              \* state of one save_to_notion invocation (retry loop)
    indicator,       \* indicators_collector: indicators started so far
    sheet,           \* the worksheet of the current indicator: its rows
    rows,            \* the rows fetched for the current indicator
    new_rows,        \* write_bulk's new_rows
    append_attempt,  \* write_bulk's attempt
    sheet_waits,     \* the sleeps of the current write_bulk call
    tag_val,         \* clean_multi_select: its argument
    tag_list,        \* clean_multi_select: the tag names it returned
    tag_list_again,  \* the tag names of normalizing the tags once more
    raw_text,        \* analyze_article_with_gemini: response.text
    text_len,        \* lengths of page_text and summary, characters clean_text removes
    prompt_len,      \* lengths of the article text and the summary put into the prompts
    html,            \* get_page_text: the answer of the page request and what the page holds
    extracted,       \* get_page_text: the text returned and the tiers tried for it
    dup_outcomes,    \* is_duplicate: the url asked for and how each query method ends
    dup_answer       \* is_duplicate: the value returned and the methods tried for it

vars == <<script, pc, missing, exit_status, net_used, logged, feed,
          fetch_status, remaining, data, page, result, processed_count,
          true_saves, cooldown, dedup_queries, store, ran, dup, rel, saved,
          quota_streak, sv,
          indicator, sheet, rows, new_rows, append_attempt, sheet_waits,
          tag_val, tag_list, tag_list_again, raw_text, text_len, prompt_len,
          html, extracted, dup_outcomes, dup_answer>>

startVars == <<script, missing>>
applyVars == <<html, extracted, dup_outcomes, dup_answer>>
fnVars    == <<tag_val, tag_list, tag_list_again, raw_text, text_len, prompt_len>>
feedVars  == <<feed, fetch_status, remaining>>
candVars  == <<data, page, result>>
ghostVars == <<ran, dup, rel, saved>>
indVars   == <<indicator, sheet, rows, new_rows, append_attempt, sheet_waits>>
countVars == <<processed_count, true_saves, cooldown>>
queryVars == <<countVars, dedup_queries>>
newsVars  == <<feed, fetch_status, remaining, data, page, result,
               processed_count, true_saves, cooldown, dedup_queries, store, ran, dup, rel, saved,
               quota_streak, sv>>

\* clean_text(raw_input)[:5000]
AnalysisInputCap == 5000
\* article_data['summary'][:500]
RelevanceSummaryCap == 500
\* len(page_text) >= 200
MinPageText == 200
\* clean_text(raw_text)[:2000]
FallbackBodyCap == 2000
\* for b in bullet_list[:3]
MaxBullets == 3
\* clean_text(b)[:2000]
BulletCap == 2000
\* len(body_text) > 2000
BlockLimit == 2000
\* body_text[:1950]
TruncatedBody == 1950

\* ------------------------------------------------------------ strings
\* characters outside ASCII are written by their code point
IdeographicComma == "U+3001"

Whitespace == {" ", "\t", "\n"}

Lower(c) ==
    CASE c = "N" -> "n"
      [] c = "O" -> "o"
      [] c = "K" -> "k"
      [] c = "C" -> "c"
      [] OTHER -> c

LowerStr(s) == [i \in 1..Len(s) |-> Lower(s[i])]

\* str.replace(IdeographicComma, ","): IdeographicComma is U+3001
ReplaceIdeographicComma(s) ==
    [i \in 1..Len(s) |-> IF s[i] = IdeographicComma THEN "," ELSE s[i]]

RECURSIVE SplitFrom(_, _, _)
\* str.split(","): the parts of s from position i on, cur being the part read so far
SplitFrom(s, i, cur) ==
    IF i > Len(s) THEN <<cur>>
    ELSE IF s[i] = "," THEN <<cur>> \o SplitFrom(s, i + 1, <<>>)
    ELSE SplitFrom(s, i + 1, Append(cur, s[i]))

Split(s) == SplitFrom(s, 1, <<>>)

RECURSIVE LStrip(_)
LStrip(s) ==
    IF s # <<>> /\ Head(s) \in Whitespace THEN LStrip(Tail(s)) ELSE s

RECURSIVE RStrip(_)
RStrip(s) ==
    IF s # <<>> /\ s[Len(s)] \in Whitespace
    THEN RStrip(SubSeq(s, 1, Len(s) - 1)) ELSE s

\* str.strip()
\* a strip that leaves the string as it is
NoStrip(s) == s

Strip(s) == RStrip(LStrip(s))

RECURSIVE DropEmpty(_)
DropEmpty(parts) ==
    IF parts = <<>> THEN <<>>
    ELSE IF Head(parts) = <<>> THEN DropEmpty(Tail(parts))
    ELSE <<Head(parts)>> \o DropEmpty(Tail(parts))

\* the values clean_multi_select treats as "no value"
NullWords == { <<>>, <<"n","o","n","e">>, <<"U+4E0D", "U+660E">>, <<"o","t","h","e","r">> }

\* clean_multi_select(val): the list of tag names (a missing value, None, is
\* the empty string here: both take the first branch)
clean_multi_select(val) ==
    IF val = <<>> \/ LowerStr(val) \in NullWords THEN <<>>
    ELSE LET parts == Split(ReplaceIdeographicComma(val))
             stripped == [i \in 1..Len(parts) |-> Strip(parts[i])]
         IN DropEmpty(stripped)

\* ----------------------------------------------- the classifier's response
\* a response is a sequence of pieces: the code fence, letters of a language
\* tag, a line break, the text of a JSON object, other text
\* the fence is three grave accents (U+0060)
Fence == "U+0060 U+0060 U+0060"
JsonObject == "{...}"
OtherText == "x"
LongText == "Text..."

\* the pieces that [a-z] matches
LowerLetters == {"j", OtherText}

RECURSIVE DropLower(_)
\* s without the longest prefix that [a-z]* matches
DropLower(s) ==
    IF s # <<>> /\ Head(s) \in LowerLetters THEN DropLower(Tail(s)) ELSE s

\* re.sub(opening fence, [a-z]*, \n?): the first substitution of line 277
StripOpenFence(s) ==
    IF s # <<>> /\ Head(s) = Fence
    THEN LET t == DropLower(Tail(s))
         IN IF t # <<>> /\ Head(t) = "\n" THEN Tail(t) ELSE t
    ELSE s

\* s without its last n pieces
DropLast(s, n) == SubSeq(s, 1, Len(s) - n)

\* re.sub(\n?, closing fence, $) of line 278: $ matches at the end and before a
\* line break that ends the string
StripCloseFence(s) ==
    LET n == Len(s)
        cut(m) == IF m >= 2 /\ s[m - 1] = "\n" THEN DropLast(SubSeq(s, 1, m), 2)
                  ELSE DropLast(SubSeq(s, 1, m), 1)
    IN IF n >= 1 /\ s[n] = Fence THEN cut(n)
       ELSE IF n >= 2 /\ s[n] = "\n" /\ s[n - 1] = Fence THEN Append(cut(n - 1), "\n")
       ELSE s

\* raw_text after the strip and the two substitutions (lines 274-278)
Unfenced(text) == StripCloseFence(StripOpenFence(Strip(text)))

\* json.loads(raw_text): "parsed", or "JSONDecodeError" (json.loads allows
\* blanks around the value)
ParseResponse(text) ==
    IF Strip(Unfenced(text)) = <<JsonObject>> THEN "parsed" ELSE "JSONDecodeError"

\* the number of characters of a piece: the fence has three, a letter and a
\* line break one, the sample object and the sample long text more
PieceLength(piece) ==
    CASE piece = Fence -> 3
      [] piece = JsonObject -> 300
      [] piece = LongText -> 2600
      [] OTHER -> 1

RECURSIVE TextLength(_)
\* len(text)
TextLength(text) ==
    IF text = <<>> THEN 0 ELSE PieceLength(Head(text)) + TextLength(Tail(text))

\* clean_text(text) on the pieces: no tag and no URL among them, white space
\* becomes a blank and the ends are stripped
clean_text(text) ==
    Strip([i \in 1..Len(text) |-> IF text[i] \in Whitespace THEN " " ELSE text[i]])

\* a slice that cuts nothing
NoCut(n, cap) == n

\* len(s[:cap]) for a string s of n characters
Cut(n, cap) == IF n > cap THEN cap ELSE n

\* ------------------------------------------------------- save_to_notion
Links == {"a", "b"}

\* the sample classifier results (brand, segment, region as the model wrote them)
\* bullet_summary is the lengths of its lines, full_body its length
ParsedResults ==
    { [kind |-> "parsed", brand |-> <<"K", ",", " ", "C">>, segment |-> <<>>,
       region |-> <<"J">>, bullet_summary |-> <<40, 40, 40>>, full_body |-> 1200],
      [kind |-> "parsed", brand |-> <<"N","o","n","e">>, segment |-> <<"S">>,
       region |-> <<>>, bullet_summary |-> <<40, 2500, 40, 40>>, full_body |-> 2600] }

\* lines 243-251: the result for an article without usable text
UrlFallback ==
    [kind |-> "url_fallback", brand |-> <<>>, segment |-> <<>>, region |-> <<>>,
     bullet_summary |-> <<15>>, full_body |-> 0]

\* lines 290-298: the result when json.loads raised on raw_text
ParseFallback(text) ==
    [kind |-> "parse_fallback", brand |-> <<>>, segment |-> <<>>, region |-> <<>>,
     bullet_summary |-> <<>>,
     full_body |-> Cut(TextLength(clean_text(text)), FallbackBodyCap)]

NoResult ==
    [kind |-> "none", brand |-> <<>>, segment |-> <<>>, region |-> <<>>,
     bullet_summary |-> <<>>, full_body |-> 0]

\* lines 274-298 for a response text: the parsed object, or the fallback
AnalyzeText(text, parsed) ==
    IF ParseResponse(text) = "parsed" THEN parsed ELSE ParseFallback(Unfenced(text))

\* article_data["title"][:100]
TitleCap == 100
\* article_data["title"][:50]
LinkTextCap == 50

\* lengths of an entry's title: under both caps, between them, over both
TitleLengths == {30, 75, 120}

NoData == [title |-> 0, link |-> "", summary |-> "", date |-> ""]

\* the properties save_to_notion builds: P_MAP key -> value sent
BuildProps(res, art) ==
    LET base == {"title", "url", "source_name", "date"}
        tags == [k \in {"brand", "segment", "region"} |-> clean_multi_select(res[k])]
        keys == base \cup {k \in {"brand", "segment", "region"} : tags[k] # <<>>}
    IN [k \in keys |->
          CASE k = "title" -> <<"title">>
            [] k = "url" -> <<art.link>>
            [] k = "source_name" -> <<"RSS Search Collector">>
            [] k = "date" -> <<art.date>>
            [] OTHER -> tags[k]]

\* props.pop(bad_prop, None)
Without(props, p) == [k \in (DOMAIN props) \ {p} |-> props[k]]

\* the property names a schema error of the store may name
NamedProps == {"brand", "region", "Foo"}

\* what one pages.create call can answer
CreateOutcomes ==
    { [kind |-> k, prop |-> ""] : k \in {"ok", "rate_limit", "other_error", "error_after_commit"} }
    \cup { [kind |-> "unknown_prop", prop |-> p] : p \in NamedProps }

\* a body paragraph that is not cut
BodyParagraphWhole(body_len) ==
    [type |-> "paragraph", section |-> "body", len |-> body_len]

\* the paragraph of the body section (lines 464-470)
BodyParagraph(body_len) ==
    [type |-> "paragraph", section |-> "body",
     len |-> IF body_len > BlockLimit THEN TruncatedBody + 3 ELSE body_len]

RECURSIVE BulletItems(_)
\* the list items of the summary section: an empty bullet is left out
BulletItems(lines) ==
    IF lines = <<>> THEN <<>>
    ELSE (IF Head(lines) > 0
          THEN <<[type |-> "bulleted_list_item", section |-> "summary",
                  len |-> Cut(Head(lines), BulletCap)]>>
          ELSE <<>>) \o BulletItems(Tail(lines))

\* the blocks of the page (lines 424-485): summary, body, source link
BuildChildren(res, art) ==
    LET heading(sec) == <<[type |-> "heading_2", section |-> sec, len |-> 8]>>
        summary == IF res.bullet_summary # <<>>
                   THEN heading("summary")
                        \o BulletItems(SubSeq(res.bullet_summary, 1,
                                               Cut(Len(res.bullet_summary), MaxBullets)))
                   ELSE <<>>
        body == IF res.full_body > 0
                THEN heading("body") \o <<BodyParagraph(res.full_body)>>
                ELSE <<>>
    IN summary \o body
       \o <<[type |-> "paragraph", section |-> "link", len |-> Cut(art.title, LinkTextCap)]>>

NoSave == [props |-> <<>>, title |-> 0, children |-> <<>>, attempt |-> 0, waits |-> <<>>, sent |-> <<>>,
           outs |-> <<>>, created |-> <<>>, ret |-> "none"]

\* save_to_notion up to the retry loop
SaveStart(res, art) ==
    [props |-> BuildProps(res, art), title |-> Cut(art.title, TitleCap),
     children |-> BuildChildren(res, art),
     attempt |-> 0, waits |-> <<>>, sent |-> <<>>,
     outs |-> <<>>, created |-> <<>>, ret |-> "running"]

\* a schema-error handler that retries without counting the attempt
AfterUnknownPropNoCount(st, o) ==
    [st EXCEPT !.props = Without(st.props, o.prop)]

\* a schema-error handler that retries with the same properties
AfterUnknownPropKeep(st, o) ==
    [st EXCEPT !.attempt = st.attempt + 1,
               !.ret = IF st.attempt + 1 < max_retries THEN "running" ELSE "False"]

\* what an attempt does after a schema error naming o.prop
AfterUnknownProp(st, o) ==
    [st EXCEPT !.props = Without(st.props, o.prop),
               !.attempt = st.attempt + 1,
               !.ret = IF st.attempt + 1 < max_retries THEN "running" ELSE "False"]

\* the wait before the next attempt
RetryWait(attempt) == RetrySleep

\* what an attempt does after any other error
AfterOtherError(st) ==
    IF st.attempt < max_retries - 1
    THEN [st EXCEPT !.waits = Append(st.waits, RetryWait(st.attempt)),
                    !.attempt = st.attempt + 1]
    ELSE [st EXCEPT !.ret = "False"]

\* one iteration of the retry loop: pages.create answers o
SaveAttempt(st, o) ==
    LET st1 == [st EXCEPT !.sent = Append(st.sent, st.props),
                          !.outs = Append(st.outs, o)]
        st2 == IF o.kind \in {"ok", "error_after_commit"}
               THEN [st1 EXCEPT !.created = Append(st1.created, st.props)]
               ELSE st1
    IN CASE o.kind = "ok" -> [st2 EXCEPT !.ret = "True"]
         [] o.kind = "unknown_prop" -> AfterUnknownProp(st2, o)
         [] OTHER -> AfterOtherError(st2)

RECURSIVE SaveRun(_, _)
\* the whole retry loop, the store answering outs[1], outs[2], ... in turn
SaveRun(st, outs) ==
    IF st.ret # "running" \/ outs = <<>> THEN st
    ELSE SaveRun(SaveAttempt(st, Head(outs)), Tail(outs))

\* ------------------------------------------------------------ is_duplicate
\* how one of the three query methods can end
QueryOutcomes == {"answered", "unavailable", "raised"}
RestOutcomes  == {"answered", "non200", "raised"}

\* a duplicate check that reports a duplicate when no method answered
is_duplicate_closed(url, m1, m2, m3) ==
    IF "answered" \in {m1, m2, m3} THEN store[url] > 0 ELSE TRUE

\* is_duplicate(url): data_sources.query, then databases.query, then the REST
\* call; the first method that completes answers from the store
is_duplicate(url, m1, m2, m3) ==
    IF m1 = "answered" THEN store[url] > 0
    ELSE IF m2 = "answered" THEN store[url] > 0
    ELSE IF m3 = "answered" THEN store[url] > 0
    ELSE FALSE

\* the queries one is_duplicate call sends: a method whose SDK attribute is
\* missing sends none, the next method is tried unless one has answered
QueriesSent(m1, m2, m3) ==
    LET sent(m) == IF m = "unavailable" THEN 0 ELSE 1
    IN IF m1 = "answered" THEN 1
       ELSE IF m2 = "answered" THEN sent(m1) + 1
       ELSE sent(m1) + sent(m2) + 1

\* the count of queries after n more
CountQueries(count, n) == IF count + n < MaxQueries THEN count + n ELSE MaxQueries

\* ---------------------------------------------------------------- startup
NewsRequired == {"NOTION_TOKEN", "DATABASE_ID", "GEMINI_API_KEY"}
IndicatorsRequired ==
    {"FRED_API_KEY", "ESTAT_API_KEY", "GOOGLE_SHEETS_CREDENTIALS", "INDICATORS_SHEET_ID"}

Required(s) == IF s = "news_collector" THEN NewsRequired ELSE IndicatorsRequired

\* the store before the run: link "a" is already recorded, link "b" is not
InitialStore == [l \in Links |-> IF l = "a" THEN 1 ELSE 0]

NoLengths == [page_text |-> 0, summary |-> 0, markup |-> 0]
NoPrompts == [article |-> 0, summary |-> 0]

NoHtml == [status |-> "none", has_article |-> FALSE, article |-> 0, containers |-> <<>>,
           all_paragraphs |-> 0, flat |-> 0]
NoExtract == [text |-> 0, tier |-> "none", tried |-> <<>>]
NoOutcomes == [url |-> "none", query |-> "none", fallback_query |-> "none",
               rest_query |-> "none"]
NoAnswer == [ret |-> "none", tried |-> <<>>]

\* neither get_page_text nor is_duplicate is being applied on its own
NoApplication ==
    /\ html = NoHtml
    /\ extracted = NoExtract
    /\ dup_outcomes = NoOutcomes
    /\ dup_answer = NoAnswer

\* no function is being applied on its own
NoInput ==
    /\ tag_val = <<>>
    /\ tag_list = <<>>
    /\ tag_list_again = <<>>
    /\ raw_text = <<>>
    /\ text_len = NoLengths
    /\ prompt_len = NoPrompts
    /\ NoApplication

InitCommon ==
    /\ exit_status = "running"
    /\ net_used = FALSE
    /\ logged = {}
    /\ feed = 0
    /\ fetch_status = "none"
    /\ remaining = 0
    /\ data = NoData
    /\ page = "none"
    /\ result = NoResult
    /\ processed_count = 0
    /\ true_saves = 0
    /\ cooldown = <<>>
    /\ dedup_queries = 0
    /\ store = InitialStore
    /\ ran = {}
    /\ dup = "none"
    /\ rel = "none"
    /\ saved = "none"
    /\ quota_streak = 0
    /\ sv = NoSave
    /\ indicator = 0
    /\ sheet = <<>>
    /\ rows = <<>>
    /\ new_rows = <<>>
    /\ append_attempt = 0
    /\ sheet_waits = <<>>

InitNews ==
    /\ script = "news_collector"
    /\ pc = "check_env_and_exit_if_empty"
    /\ missing \in SUBSET NewsRequired
    /\ InitCommon
    /\ NoInput

\* a configuration check that reports and goes on
AfterCheckEnvNoExit(miss) == "get_best_model"

\* where check_env_and_exit_if_empty leaves the run
AfterCheckEnv(miss) == IF miss # {} THEN "exited" ELSE "get_best_model"

\* check_env_and_exit_if_empty(), called at import time (line 70)
CheckEnvAndExitIfEmpty ==
    /\ pc = "check_env_and_exit_if_empty"
    /\ pc' = AfterCheckEnv(missing)
    /\ IF missing # {}
       THEN /\ logged' = logged \cup {"CRITICAL ERROR: Missing Secrets"}
            /\ exit_status' = "1"
       ELSE UNCHANGED <<logged, exit_status>>
    /\ UNCHANGED <<indVars, startVars, applyVars, fnVars, net_used, feedVars, candVars, queryVars,
                   store, ghostVars, quota_streak, sv>>

\* model = get_best_model(): genai.list_models() over the network; a failure
\* falls back to the default model name
GetBestModel ==
    /\ pc = "get_best_model"
    /\ \E listed \in BOOLEAN : net_used' = TRUE
    /\ pc' = "get_db_properties"
    /\ UNCHANGED <<indVars, startVars, applyVars, fnVars, exit_status, logged, feedVars, candVars,
                   queryVars, store, ghostVars, quota_streak, sv>>

\* ACTUAL_DB_PROPS = get_db_properties(): notion.databases.retrieve over the
\* network; a failure falls back to the hardcoded names; then main() starts
GetDbProperties ==
    /\ pc = "get_db_properties"
    /\ \E retrieved \in BOOLEAN : net_used' = TRUE
    /\ pc' = "feed_loop"
    /\ processed_count' = 0
    /\ logged' = logged \cup {"Starting News Collection"}
    /\ UNCHANGED <<indVars, startVars, applyVars, fnVars, exit_status, feedVars, candVars, store,
                   true_saves, cooldown, dedup_queries, ghostVars, quota_streak, sv>>

\* ------------------------------------------------------------------- main
FetchOutcomes == {"ok", "http_error", "request_exception", "parse_exception"}
FetchFailures == FetchOutcomes \ {"ok"}

\* a fetch whose exceptions are not caught around the feed
AfterFetchUncaught(outcome) ==
    IF outcome = "ok" THEN "entry_loop"
    ELSE IF outcome = "http_error" THEN "feed_loop" ELSE "crashed"

\* where main goes after the fetch of a feed
AfterFetch(outcome) == IF outcome = "ok" THEN "entry_loop" ELSE "feed_loop"

\* the entries a fetch contributes: n parsed entries, none on a failure
EntriesOf(outcome, n) == IF outcome = "ok" THEN n ELSE 0

\* a limit check that lets one more record through
LimitReachedLate(count) == count > total_limit

\* if processed_count >= total_limit: break (lines 612 and 627)
LimitReached(count) == count >= total_limit

\* for feed in RSS_FEEDS: the limit check, requests.get, feedparser.parse;
\* w is the world of the run: the answers its feeds and services can give
FetchFeedIn(w) ==
    /\ pc = "feed_loop"
    /\ feed < NumFeeds
    /\ ~LimitReached(processed_count)
    /\ \E outcome \in w.fetch, n \in w.entries :
         /\ fetch_status' = outcome
         /\ remaining' = EntriesOf(outcome, n)
         /\ pc' = AfterFetch(outcome)
    /\ feed' = feed + 1
    /\ net_used' = TRUE
    /\ UNCHANGED <<indVars, startVars, applyVars, fnVars, exit_status, logged, candVars, queryVars,
                   store, ghostVars, quota_streak, sv>>

\* the feed loop ends: RSS_FEEDS is exhausted or the limit is reached
CollectionComplete ==
    /\ pc = "feed_loop"
    /\ feed >= NumFeeds \/ LimitReached(processed_count)
    /\ pc' = "done"
    /\ exit_status' = "0"
    /\ logged' = logged \cup {"COLLECTION COMPLETE"}
    /\ UNCHANGED <<indVars, startVars, applyVars, fnVars, net_used, feedVars, candVars, queryVars,
                   store, ghostVars, quota_streak, sv>>

\* the entry loop ends (no entry left, or the limit is reached): sleep 5
EndOfEntries ==
    /\ pc = "entry_loop"
    /\ remaining = 0 \/ LimitReached(processed_count)
    /\ pc' = "feed_loop"
    /\ UNCHANGED <<indVars, startVars, applyVars, fnVars, exit_status, net_used, logged, feedVars, candVars,
                   queryVars, store, ghostVars, quota_streak, sv>>

PubValues == {"none", "fresh", "old", "invalid"}

\* a main without the 24 hour filter
AfterEntryNoFilter(has_title_and_link, pub) ==
    IF ~has_title_and_link THEN "entry_loop"
    ELSE IF pub = "invalid" THEN "feed_loop"
    ELSE "is_duplicate"

\* where main goes with a feed entry: skip it, leave the feed (the exception
\* of datetime(...) is caught by the try around the feed), or process it
AfterEntry(has_title_and_link, pub) ==
    IF ~has_title_and_link THEN "entry_loop"
    ELSE IF pub = "invalid" THEN "feed_loop"
    ELSE IF pub = "old" THEN "entry_loop"
    ELSE "is_duplicate"

\* the date stored for an entry
EntryDate(pub) == IF pub = "none" THEN "now" ELSE "entry_dt"

\* for entry in entries: title/link check, 24 hour filter, data = {...}
TakeEntryIn(w) ==
    /\ pc = "entry_loop"
    /\ remaining > 0
    /\ ~LimitReached(processed_count)
    /\ remaining' = remaining - 1
    /\ \E has_title_and_link \in w.titled, pub \in w.pub, link \in Links,
          summary \in w.summary, title \in w.title :
         /\ pc' = AfterEntry(has_title_and_link, pub)
         /\ data' = IF pc' = "is_duplicate"
                    THEN [title |-> title, link |-> link, summary |-> summary,
                          date |-> EntryDate(pub)]
                    ELSE NoData
    /\ page' = "none"
    /\ result' = NoResult
    /\ ran' = {}
    /\ dup' = "none"
    /\ rel' = "none"
    /\ saved' = "none"
    /\ UNCHANGED <<indVars, startVars, applyVars, fnVars, exit_status, net_used, logged, feed, fetch_status,
                   queryVars, store, quota_streak, sv>>

\* the duplicate check without its `continue`
AfterDedupNoSkip(d) == "analyze_article_relevance"

\* where main goes after the duplicate check (lines 656-658)
AfterDedup(d) == IF d THEN "entry_loop" ELSE "analyze_article_relevance"

\* (1) if is_duplicate(data["link"]): continue
IsDuplicateIn(w) ==
    /\ pc = "is_duplicate"
    /\ \E m1 \in w.query, m2 \in w.fallback_query, m3 \in w.rest_query :
         LET d == is_duplicate(data.link, m1, m2, m3) IN
           /\ dup' = IF d THEN "True" ELSE "False"
           /\ pc' = AfterDedup(d)
           /\ data' = IF pc' = "entry_loop" THEN NoData ELSE data
           /\ dedup_queries' = CountQueries(dedup_queries, QueriesSent(m1, m2, m3))
    /\ ran' = ran \cup {"is_duplicate"}
    /\ net_used' = TRUE
    /\ UNCHANGED <<indVars, startVars, applyVars, fnVars, exit_status, logged, feedVars, page, result,
                   countVars, store, rel, saved, quota_streak, sv>>

\* the streak of quota errors after one more classifier call
StreakAfter(answer) ==
    IF answer = "quota_exceeded"
    THEN (IF quota_streak < MaxStreak THEN quota_streak + 1 ELSE quota_streak)
    ELSE 0

RelevanceAnswers == {"yes", "no", "quota_exceeded", "error"}

\* a relevance check that lets every answer pass
analyze_article_relevance_any(answer) == TRUE

\* analyze_article_relevance(article_data): True iff the answer contains
\* 'yes', and True when generate_content raises
analyze_article_relevance(answer) ==
    IF answer \in {"yes", "no"} THEN answer = "yes" ELSE TRUE

\* the relevance check without its `continue`
AfterRelevanceNoSkip(relevant) == "get_page_text"

\* a variant that analyses a relevant candidate without fetching its page
AfterRelevanceNoFetch(relevant) ==
    IF relevant THEN "analyze_article_with_gemini" ELSE "entry_loop"

\* where main goes after the relevance check (lines 661-662)
AfterRelevance(relevant) == IF relevant THEN "get_page_text" ELSE "entry_loop"

\* (2) if not analyze_article_relevance(data): continue
CheckRelevanceIn(w) ==
    /\ pc = "analyze_article_relevance"
    /\ \E answer \in w.relevance :
         /\ rel' = answer
         /\ quota_streak' = StreakAfter(answer)
         /\ pc' = AfterRelevance(analyze_article_relevance(answer))
         /\ data' = IF pc' = "entry_loop" THEN NoData ELSE data
    /\ ran' = ran \cup {"analyze_article_relevance"}
    /\ net_used' = TRUE
    /\ UNCHANGED <<indVars, startVars, applyVars, fnVars, exit_status, logged, feedVars, page, result,
                   queryVars, store, dup, saved, sv>>

\* get_page_text(url) by class: "" on a failure, under 200 characters, 200 or
\* more, 200 or more of which clean_text leaves nothing
PageClasses == {"empty", "short", "long", "long_markup"}

\* (3) page_text = get_page_text(data["link"])
GetPageTextIn(w) ==
    /\ pc = "get_page_text"
    /\ page' \in w.page
    /\ pc' = "analyze_article_with_gemini"
    /\ ran' = ran \cup {"get_page_text"}
    /\ net_used' = TRUE
    /\ UNCHANGED <<indVars, startVars, applyVars, fnVars, exit_status, logged, feedVars, data, result,
                   queryVars, store, dup, rel, saved, quota_streak, sv>>

\* raw_input of analyze_article_with_gemini is empty (lines 239-243)
RawInputEmpty(art, page_text) ==
    IF page_text \in {"long", "long_markup"} THEN page_text = "long_markup"
    ELSE art.summary = ""

AnalysisAnswers ==
    {"json", "json_fenced", "json_fenced_upper", "json_empty_object", "not_json",
     "not_json_long", "quota_exceeded", "error"}

\* the answers that are a text other than the empty object
TextAnswers == {"json", "json_fenced", "json_fenced_upper", "not_json", "not_json_long"}

\* a response text of each kind of answer that has one
ResponseText(answer) ==
    CASE answer = "json" -> <<JsonObject>>
      [] answer = "json_fenced" -> <<Fence, "j", "\n", JsonObject, "\n", Fence>>
      [] answer = "json_fenced_upper" -> <<Fence, "J", "\n", JsonObject, "\n", Fence>>
      [] answer = "not_json_long" -> <<LongText>>
      [] OTHER -> <<OtherText>>

\* what analyze_article_with_gemini returns for an answer of the model
\* (NoResult is a result main treats as missing: None, or the empty object)
AnalysisResult(answer, parsed) ==
    CASE answer \in TextAnswers -> AnalyzeText(ResponseText(answer), parsed)
      [] OTHER -> NoResult

\* a main that drops the candidate whose analysis fell back
AfterAnalysisSkipsFallback(res) ==
    IF res = NoResult \/ res.kind = "parse_fallback" THEN "entry_loop"
    ELSE "save_to_notion"

\* a main that repeats the analysis until it gives a result
AfterAnalysisRetry(res) ==
    IF res = NoResult THEN "analyze_article_with_gemini" ELSE "save_to_notion"

\* where main goes after the analysis (lines 671-673)
AfterAnalysis(res) == IF res = NoResult THEN "entry_loop" ELSE "save_to_notion"

\* (4) result = analyze_article_with_gemini(data, page_text)
AnalyzeIn(w) ==
    /\ pc = "analyze_article_with_gemini"
    /\ IF RawInputEmpty(data, page)
       THEN /\ result' = UrlFallback
            /\ UNCHANGED quota_streak
       ELSE \E answer \in w.analysis, parsed \in w.parsed :
              /\ result' = AnalysisResult(answer, parsed)
              /\ quota_streak' = StreakAfter(answer)
              /\ net_used' = TRUE
    /\ pc' = AfterAnalysis(result')
    /\ data' = IF pc' = "entry_loop" THEN NoData ELSE data
    /\ page' = "none"
    /\ ran' = ran \cup {"analyze_article_with_gemini"}
    /\ UNCHANGED <<indVars, startVars, applyVars, fnVars, exit_status, net_used, logged, feedVars,
                   queryVars, store, dup, rel, saved, sv>>

\* what pages.create answers in a whole run (the answer that fails after the
\* store committed the page is explored in SpecSave)
RunCreateOutcomes == {o \in CreateOutcomes : o.kind # "error_after_commit" /\ o.prop \in {"", "brand"}}

\* processed_count after save_to_notion returned ret (lines 676-677)
CountAfterSave(ret) == IF ret = "True" THEN processed_count + 1 ELSE processed_count

\* a variant that never takes the long sleep
SleepsAfterWriteShort(count) == <<ArticleSleep>>

\* the sleeps between a save that returned True and the next entry, count
\* being processed_count after the increment (lines 680-685)
SleepsAfterWrite(count) ==
    (IF count % LongSleepEvery = 0 THEN <<LongSleep>> ELSE <<>>) \o <<ArticleSleep>>

\* (5) if save_to_notion(result, data): processed_count += 1; the sleeps
SaveIn(w) ==
    /\ pc = "save_to_notion"
    /\ \E start \in {SaveStart(result, data)}, outs \in [1..max_retries -> w.create] :
         \E fin \in {SaveRun(start, outs)} :
           /\ saved' = fin.ret
           /\ store' = [store EXCEPT ![data.link] = @ + Len(fin.created)]
           /\ processed_count' = CountAfterSave(fin.ret)
           /\ true_saves' = IF fin.ret = "True" THEN true_saves + 1 ELSE true_saves
           /\ cooldown' = IF fin.ret = "True" THEN SleepsAfterWrite(processed_count')
                                              ELSE cooldown
    /\ pc' = "entry_loop"
    /\ data' = NoData
    /\ result' = NoResult
    /\ ran' = ran \cup {"save_to_notion"}
    /\ net_used' = TRUE
    /\ UNCHANGED <<indVars, startVars, applyVars, fnVars, exit_status, logged, feedVars, page, dup, rel,
                   dedup_queries, quota_streak, sv>>

\* every answer the feeds, the store and the classifier can give
AnyWorld ==
    [fetch |-> FetchOutcomes, entries |-> 0..MaxEntries, titled |-> BOOLEAN,
     title |-> {120}, pub |-> PubValues, summary |-> {"", "text"},
     query |-> QueryOutcomes,
     fallback_query |-> QueryOutcomes, rest_query |-> RestOutcomes,
     relevance |-> RelevanceAnswers, page |-> PageClasses,
     analysis |-> AnalysisAnswers, parsed |-> ParsedResults,
     create |-> RunCreateOutcomes]

FetchFeed == FetchFeedIn(AnyWorld)
TakeEntry == TakeEntryIn(AnyWorld)
IsDuplicate == IsDuplicateIn(AnyWorld)
CheckRelevance == CheckRelevanceIn(AnyWorld)
GetPageText == GetPageTextIn(AnyWorld)
Analyze == AnalyzeIn(AnyWorld)
Save == SaveIn(AnyWorld)

NewsNext ==
    \/ CheckEnvAndExitIfEmpty
    \/ GetBestModel
    \/ GetDbProperties
    \/ FetchFeed
    \/ CollectionComplete
    \/ EndOfEntries
    \/ TakeEntry
    \/ IsDuplicate
    \/ CheckRelevance
    \/ GetPageText
    \/ Analyze
    \/ Save

SpecNews == InitNews /\ [][NewsNext]_vars

\* ------------------------------------------------ runs that reach the limit
\* a run over long feeds of fresh, well-formed entries whose pages load and
\* whose analysis parses; the duplicate query answers or fails, the model
\* says yes or no, pages.create succeeds or fails
LongFeedWorld ==
    [fetch |-> {"ok"}, entries |-> {LongFeed}, titled |-> {TRUE}, title |-> {120},
     pub |-> {"fresh"}, summary |-> {"text"}, query |-> {"answered", "raised"},
     fallback_query |-> {"raised"}, rest_query |-> {"raised"},
     relevance |-> {"yes", "no"}, page |-> {"long"},
     analysis |-> {"json"},
     parsed |-> {r \in ParsedResults : r.region # <<>>},
     create |-> {o \in CreateOutcomes : o.kind \in {"ok", "other_error"}}]

LimitNext ==
    \/ CheckEnvAndExitIfEmpty
    \/ GetBestModel
    \/ GetDbProperties
    \/ FetchFeedIn(LongFeedWorld)
    \/ CollectionComplete
    \/ EndOfEntries
    \/ TakeEntryIn(LongFeedWorld)
    \/ IsDuplicateIn(LongFeedWorld)
    \/ CheckRelevanceIn(LongFeedWorld)
    \/ GetPageTextIn(LongFeedWorld)
    \/ AnalyzeIn(LongFeedWorld)
    \/ SaveIn(LongFeedWorld)

SpecLimit == InitNews /\ [][LimitNext]_vars

\* ------------------------------------------- runs against rate-limited services
\* a run in which every call returns with a result, a rate-limit error or
\* another error: the feed loads or fails, every entry is well-formed or not,
\* the duplicate query answers or fails, the model answers, is out of quota
\* or fails, pages.create succeeds, is rate-limited or fails
RateLimitedWorld ==
    [fetch |-> FetchOutcomes, entries |-> 0..MaxEntries, titled |-> BOOLEAN,
     title |-> {120}, pub |-> PubValues, summary |-> {"text"}, query |-> {"answered", "raised"},
     fallback_query |-> {"raised"}, rest_query |-> {"raised"},
     relevance |-> RelevanceAnswers, page |-> {"long", "empty"},
     analysis |-> {"json", "quota_exceeded", "error"},
     parsed |-> {r \in ParsedResults : r.region # <<>>},
     create |-> RunCreateOutcomes]

RateLimitedNext ==
    \/ CheckEnvAndExitIfEmpty
    \/ GetBestModel
    \/ GetDbProperties
    \/ FetchFeedIn(RateLimitedWorld)
    \/ CollectionComplete
    \/ EndOfEntries
    \/ TakeEntryIn(RateLimitedWorld)
    \/ IsDuplicateIn(RateLimitedWorld)
    \/ CheckRelevanceIn(RateLimitedWorld)
    \/ GetPageTextIn(RateLimitedWorld)
    \/ AnalyzeIn(RateLimitedWorld)
    \/ SaveIn(RateLimitedWorld)

\* the script is one sequential process: when every call it makes returns,
\* it always takes its next step
SpecRateLimited == InitNews /\ [][RateLimitedNext]_vars /\ WF_vars(RateLimitedNext)

\* ------------------------------------------- save_to_notion, call by call
\* one save_to_notion(result, article_data) call of a started run, for the
\* results and articles main can pass to it
InitSave ==
    /\ script = "news_collector"
    /\ pc = "pages.create"
    /\ missing = {}
    /\ exit_status = "running"
    /\ net_used = TRUE
    /\ logged = {"Starting News Collection"}
    /\ feed = 1
    /\ fetch_status = "ok"
    /\ remaining = 0
    /\ data \in [title : TitleLengths, link : Links, summary : {"text"},
                  date : {"now", "entry_dt"}]
    /\ page = "none"
    /\ result \in ParsedResults \cup {UrlFallback, ParseFallback(<<>>)}
                 \cup {AnalysisResult(a, r) : a \in TextAnswers, r \in ParsedResults}
    /\ processed_count = 0
    /\ true_saves = 0
    /\ cooldown = <<>>
    /\ dedup_queries = 0
    /\ store = InitialStore
    /\ ran = {"is_duplicate", "analyze_article_relevance", "get_page_text",
              "analyze_article_with_gemini", "save_to_notion"}
    /\ dup = "False"
    /\ rel = "yes"
    /\ saved = "none"
    /\ quota_streak = 0
    /\ sv = SaveStart(result, data)
    /\ indicator = 0
    /\ sheet = <<>>
    /\ rows = <<>>
    /\ new_rows = <<>>
    /\ append_attempt = 0
    /\ sheet_waits = <<>>
    /\ NoInput

\* for attempt in range(max_retries): notion.pages.create(...) and its handler
PagesCreate ==
    /\ pc = "pages.create"
    /\ sv.ret = "running"
    /\ \E o \in CreateOutcomes :
         /\ sv' = SaveAttempt(sv, o)
         /\ store' = [store EXCEPT ![data.link] = @ + Len(sv'.created) - Len(sv.created)]
    /\ saved' = IF sv'.ret = "running" THEN saved ELSE sv'.ret
    /\ pc' = IF sv'.ret = "running" THEN pc ELSE "save_returned"
    /\ UNCHANGED <<indVars, startVars, applyVars, fnVars, exit_status, net_used, logged, feedVars,
                   candVars, queryVars, ran, dup, rel, quota_streak>>

SpecSave == InitSave /\ [][PagesCreate]_vars

\* ------------------------------------- clean_multi_select, value by value
\* the characters of the classifier's field values: two letters, the two
\* delimiters, a blank and the two characters of the word for "unknown"
TagChars == {"K", "C", ",", IdeographicComma, " ", "U+4E0D", "U+660E"}

RECURSIVE StringsUpTo(_, _)
\* the strings over chars of length n or less
StringsUpTo(chars, n) ==
    IF n = 0 THEN { <<>> }
    ELSE LET shorter == StringsUpTo(chars, n - 1)
         IN shorter \cup { Append(t, c) : t \in shorter, c \in chars }

\* the analysis result whose brand is v, for a new article
TaggedResult(v) ==
    [kind |-> "parsed", brand |-> v, segment |-> <<>>, region |-> <<>>,
     bullet_summary |-> <<40, 40, 40>>, full_body |-> 1200]
NewArticle == [title |-> 30, link |-> "b", summary |-> "text", date |-> "now"]

\* a classifier field value reaches save_to_notion for a new, relevant
\* candidate of a started run
InitTags ==
    /\ script = "news_collector"
    /\ pc = "clean_multi_select"
    /\ missing = {}
    /\ exit_status = "running"
    /\ net_used = TRUE
    /\ logged = {"Starting News Collection"}
    /\ feed = 1
    /\ fetch_status = "ok"
    /\ remaining = 0
    /\ data = NoData
    /\ page = "none"
    /\ result = NoResult
    /\ processed_count = 0
    /\ true_saves = 0
    /\ cooldown = <<>>
    /\ dedup_queries = 0
    /\ store = InitialStore
    /\ ran = {}
    /\ dup = "none"
    /\ rel = "none"
    /\ saved = "none"
    /\ quota_streak = 0
    /\ sv = NoSave
    /\ indicator = 0
    /\ sheet = <<>>
    /\ rows = <<>>
    /\ new_rows = <<>>
    /\ append_attempt = 0
    /\ sheet_waits = <<>>
    /\ tag_val \in StringsUpTo(TagChars, MaxTagLen)
    /\ tag_list = <<>>
    /\ tag_list_again = <<>>
    /\ raw_text = <<>>
    /\ text_len = NoLengths
    /\ prompt_len = NoPrompts
    /\ NoApplication

\* tags = clean_multi_select(result.get("brand")) (line 412)
Normalize ==
    /\ pc = "clean_multi_select"
    /\ tag_list' = clean_multi_select(tag_val)
    /\ pc' = "normalized"
    /\ UNCHANGED <<indVars, newsVars, startVars, applyVars, exit_status, net_used, logged,
                   tag_val, tag_list_again, raw_text, text_len, prompt_len>>

RECURSIVE JoinTags(_)
\* a tag list written as one field value: the names joined by ","
JoinTags(ts) ==
    IF ts = <<>> THEN <<>>
    ELSE IF Len(ts) = 1 THEN ts[1]
    ELSE ts[1] \o <<",">> \o JoinTags(Tail(ts))

\* clean_multi_select applied to the tag list it returned
Renormalize ==
    /\ pc = "normalized"
    /\ tag_list_again' = clean_multi_select(JoinTags(tag_list))
    /\ pc' = "renormalized"
    /\ UNCHANGED <<indVars, newsVars, startVars, applyVars, exit_status, net_used, logged,
                   tag_val, tag_list, raw_text, text_len, prompt_len>>

\* save_to_notion(result, article_data) with brand = tag_val, pages.create
\* accepting the page at once
SaveTagged ==
    /\ pc \in {"normalized", "renormalized"}
    /\ data' = NewArticle
    /\ result' = TaggedResult(tag_val)
    /\ sv' = SaveRun(SaveStart(result', data'), <<[kind |-> "ok", prop |-> ""]>>)
    /\ store' = [store EXCEPT ![data'.link] = @ + Len(sv'.created)]
    /\ saved' = sv'.ret
    /\ net_used' = TRUE
    /\ pc' = "save_returned"
    /\ UNCHANGED <<indVars, startVars, applyVars, fnVars, exit_status, logged, feedVars, page,
                   queryVars, ran, dup, rel, quota_streak>>

TagsNext == Normalize \/ Renormalize \/ SaveTagged

SpecTags == InitTags /\ [][TagsNext]_vars

\* ------------------------------------------ the response, text by text
FenceTags == StringsUpTo({"j", "J"}, MaxFenceTag)
LineBreaks == { <<>>, <<"\n">> }

\* a body between code fences, with or without a language tag and line breaks
Fenced(tag, nl1, body, nl2) == <<Fence>> \o tag \o nl1 \o <<body>> \o nl2 \o <<Fence>>

\* the responses of the classifier: a JSON object or other text, bare or
\* between code fences, with or without blank lines around
Responses ==
    { pre \o Fenced(tag, nl1, body, nl2) \o post :
        pre \in LineBreaks, tag \in FenceTags, nl1 \in LineBreaks,
        body \in {JsonObject, OtherText}, nl2 \in LineBreaks, post \in LineBreaks }
    \cup { pre \o <<body>> \o post :
        pre \in LineBreaks, body \in {JsonObject, OtherText, LongText},
        post \in LineBreaks }

\* analyze_article_with_gemini has received the response of generate_content
InitFence ==
    /\ script = "news_collector"
    /\ pc = "generate_content"
    /\ missing = {}
    /\ exit_status = "running"
    /\ net_used = TRUE
    /\ logged = {"Starting News Collection"}
    /\ feed = 1
    /\ fetch_status = "ok"
    /\ remaining = 0
    /\ data = NewArticle
    /\ page = "long"
    /\ result = NoResult
    /\ processed_count = 0
    /\ true_saves = 0
    /\ cooldown = <<>>
    /\ dedup_queries = 1
    /\ store = InitialStore
    /\ ran = {"is_duplicate", "analyze_article_relevance", "get_page_text"}
    /\ dup = "False"
    /\ rel = "yes"
    /\ saved = "none"
    /\ quota_streak = 0
    /\ sv = NoSave
    /\ indicator = 0
    /\ sheet = <<>>
    /\ rows = <<>>
    /\ new_rows = <<>>
    /\ append_attempt = 0
    /\ sheet_waits = <<>>
    /\ tag_val = <<>>
    /\ tag_list = <<>>
    /\ tag_list_again = <<>>
    /\ raw_text \in Responses
    /\ text_len = NoLengths
    /\ prompt_len = NoPrompts
    /\ NoApplication

\* lines 274-298: strip, remove the fences, json.loads, or the fallback; then
\* main's test of the result (lines 671-673)
ParseAnswer ==
    /\ pc = "generate_content"
    /\ \E parsed \in ParsedResults :
         result' = AnalyzeText(raw_text, parsed)
    /\ pc' = AfterAnalysis(result')
    /\ data' = IF pc' = "entry_loop" THEN NoData ELSE data
    /\ page' = "none"
    /\ quota_streak' = 0
    /\ ran' = ran \cup {"analyze_article_with_gemini"}
    /\ UNCHANGED <<indVars, startVars, applyVars, fnVars, exit_status, net_used, logged, feedVars,
                   queryVars, store, dup, rel, saved, sv>>

\* the analysis of one response and the save that follows it
FenceNext == ParseAnswer \/ Save

SpecFence == InitFence /\ [][FenceNext]_vars

\* ------------------------------------------------- the prompts, by length
\* lengths at, just under and just over the limits of the two prompts
SampleLengths ==
    { c + d : c \in {0, MinPageText, RelevanceSummaryCap, AnalysisInputCap,
                     2 * AnalysisInputCap},
              d \in {-1, 0, 1} } \cap Nat

\* the characters clean_text removes: none, one, a block of markup
MarkupLengths == {0, 1, 300}

\* len(clean_text(s)) for a string of n characters, removed of them in tags,
\* URLs and repeated white space
CleanedLength(n, removed) == IF removed >= n THEN 0 ELSE n - removed

\* a candidate with its RSS summary and its page text, before the two prompts
InitPrompts ==
    /\ script = "news_collector"
    /\ pc = "relevance_prompt"
    /\ missing = {}
    /\ exit_status = "running"
    /\ net_used = TRUE
    /\ logged = {"Starting News Collection"}
    /\ feed = 1
    /\ fetch_status = "ok"
    /\ remaining = 0
    /\ data = NewArticle
    /\ page = "none"
    /\ result = NoResult
    /\ processed_count = 0
    /\ true_saves = 0
    /\ cooldown = <<>>
    /\ dedup_queries = 1
    /\ store = InitialStore
    /\ ran = {"is_duplicate"}
    /\ dup = "False"
    /\ rel = "none"
    /\ saved = "none"
    /\ quota_streak = 0
    /\ sv = NoSave
    /\ indicator = 0
    /\ sheet = <<>>
    /\ rows = <<>>
    /\ new_rows = <<>>
    /\ append_attempt = 0
    /\ sheet_waits = <<>>
    /\ tag_val = <<>>
    /\ tag_list = <<>>
    /\ tag_list_again = <<>>
    /\ raw_text = <<>>
    /\ text_len \in [page_text : SampleLengths, summary : SampleLengths,
                      markup : MarkupLengths]
    /\ prompt_len = NoPrompts
    /\ NoApplication

\* analyze_article_relevance: article_data['summary'][:500] (line 209)
RelevancePrompt ==
    /\ pc = "relevance_prompt"
    /\ prompt_len' = [prompt_len EXCEPT !.summary = Cut(text_len.summary, RelevanceSummaryCap)]
    /\ ran' = ran \cup {"analyze_article_relevance"}
    /\ pc' = "analysis_prompt"
    /\ UNCHANGED <<indVars, startVars, applyVars, exit_status, net_used, logged, feedVars, candVars,
                   queryVars, store, dup, rel, saved, quota_streak, sv,
                   tag_val, tag_list, tag_list_again, raw_text, text_len>>

\* analyze_article_with_gemini: raw_input (lines 239-240)
AnalysisPrompt ==
    /\ pc = "analysis_prompt"
    /\ LET raw_input == IF text_len.page_text >= MinPageText THEN text_len.page_text
                        ELSE text_len.summary
       IN prompt_len' = [prompt_len EXCEPT !.article =
                           Cut(CleanedLength(raw_input, text_len.markup), AnalysisInputCap)]
    /\ ran' = ran \cup {"get_page_text", "analyze_article_with_gemini"}
    /\ pc' = "prompts_built"
    /\ UNCHANGED <<indVars, startVars, applyVars, exit_status, net_used, logged, feedVars, candVars,
                   queryVars, store, dup, rel, saved, quota_streak, sv,
                   tag_val, tag_list, tag_list_again, raw_text, text_len>>

PromptsNext == RelevancePrompt \/ AnalysisPrompt

SpecPrompts == InitPrompts /\ [][PromptsNext]_vars

\* ------------------------------------------------ get_page_text, page by page
\* if len(text) > 200 in get_page_text
TierThreshold == 200
\* return text[:10000]
PageTextCap == 10000

\* lengths of the text a tier finds: nothing, the threshold, one more, more
\* than the cap
TierLengths == {0, TierThreshold, TierThreshold + 1, PageTextCap + 2000}

\* the containers of the second tier that a page can hold, in selector order
ContainerLists ==
    {<<>>} \cup {<<a>> : a \in TierLengths} \cup {<<a, b>> : a, b \in TierLengths}

\* how requests.get and the parsing can end
PageOutcomes == {"200", "404", "raises"}

\* the paragraphs of <article> and of a container are paragraphs of the page
Pages ==
    {h \in [status : PageOutcomes, has_article : BOOLEAN, article : TierLengths,
            containers : ContainerLists, all_paragraphs : TierLengths,
            flat : TierLengths] :
        /\ ~h.has_article => h.article = 0
        /\ h.article <= h.all_paragraphs
        /\ \A i \in 1..Len(h.containers) : h.containers[i] <= h.all_paragraphs}

\* the paragraph tiers get_page_text can try on a page, in its order:
\* <article> when the page has one, each container found, the whole page
ParagraphTiers(h) ==
    (IF h.has_article THEN <<[tier |-> "article", len |-> h.article]>> ELSE <<>>)
    \o [i \in 1..Len(h.containers) |-> [tier |-> "main_content", len |-> h.containers[i]]]
    \o <<[tier |-> "all_paragraphs", len |-> h.all_paragraphs]>>

\* a variant that takes any text that is not empty
UsableAny(len) == len > 0

\* if len(text) > 200
Usable(len) == len > TierThreshold

\* the first tier whose text is usable, 0 when there is none
FirstUsable(tiers) ==
    IF \E k \in 1..Len(tiers) : Usable(tiers[k].len)
    THEN CHOOSE k \in 1..Len(tiers) :
           /\ Usable(tiers[k].len)
           /\ \A j \in 1..(k - 1) : ~Usable(tiers[j].len)
    ELSE 0

\* get_page_text(url): the length of the text returned, the tier it came from
\* and the tiers tried
get_page_text(h) ==
    IF h.status # "200" THEN NoExtract
    ELSE LET tiers == ParagraphTiers(h)
             k == FirstUsable(tiers)
         IN IF k > 0
            THEN [text |-> Cut(tiers[k].len, PageTextCap), tier |-> tiers[k].tier,
                  tried |-> SubSeq(tiers, 1, k)]
            ELSE [text |-> Cut(h.flat, PageTextCap), tier |-> "full_text",
                  tried |-> tiers \o <<[tier |-> "full_text", len |-> h.flat]>>]

\* the class of a page text of this length (lines 239 and 666)
PageClass(len) ==
    IF len = 0 THEN "empty" ELSE IF len < MinPageText THEN "short" ELSE "long"

\* main has a new, relevant candidate and asks for its page
InitPage ==
    /\ script = "news_collector"
    /\ pc = "get_page_text"
    /\ missing = {}
    /\ exit_status = "running"
    /\ net_used = TRUE
    /\ logged = {"Starting News Collection"}
    /\ feed = 1
    /\ fetch_status = "ok"
    /\ remaining = 0
    /\ data = NewArticle
    /\ page = "none"
    /\ result = NoResult
    /\ processed_count = 0
    /\ true_saves = 0
    /\ cooldown = <<>>
    /\ dedup_queries = 1
    /\ store = InitialStore
    /\ ran = {"is_duplicate", "analyze_article_relevance"}
    /\ dup = "False"
    /\ rel = "yes"
    /\ saved = "none"
    /\ quota_streak = 0
    /\ sv = NoSave
    /\ indicator = 0
    /\ sheet = <<>>
    /\ rows = <<>>
    /\ new_rows = <<>>
    /\ append_attempt = 0
    /\ sheet_waits = <<>>
    /\ tag_val = <<>>
    /\ tag_list = <<>>
    /\ tag_list_again = <<>>
    /\ raw_text = <<>>
    /\ text_len = NoLengths
    /\ prompt_len = NoPrompts
    /\ html \in Pages
    /\ extracted = NoExtract
    /\ dup_outcomes = NoOutcomes
    /\ dup_answer = NoAnswer

\* page_text = get_page_text(data["link"]) on the page html
ExtractPageText ==
    /\ pc = "get_page_text"
    /\ html # NoHtml
    /\ extracted' = get_page_text(html)
    /\ page' = PageClass(extracted'.text)
    /\ pc' = "analyze_article_with_gemini"
    /\ ran' = ran \cup {"get_page_text"}
    /\ UNCHANGED <<indVars, startVars, fnVars, html, dup_outcomes, dup_answer, exit_status,
                   net_used, logged, feedVars, data, result, queryVars, store, dup, rel,
                   saved, quota_streak, sv>>

SpecPage == InitPage /\ [][ExtractPageText]_vars

\* ------------------------------------------------- is_duplicate, call by call
\* the three query methods in the order of the function's body
QueryOrder == <<"data_sources.query", "databases.query", "REST">>

\* the methods one call reaches: the next one only when the one before it
\* was unavailable or raised (lines 320-369)
MethodsTried(m1, m2, m3) ==
    IF m1 = "answered" THEN SubSeq(QueryOrder, 1, 1)
    ELSE IF m2 = "answered" THEN SubSeq(QueryOrder, 1, 2)
    ELSE QueryOrder

\* main asks whether the link of a new entry is stored, the store holding
\* any records and each method ending in any way
InitDedup ==
    /\ script = "news_collector"
    /\ pc = "is_duplicate"
    /\ missing = {}
    /\ exit_status = "running"
    /\ net_used = TRUE
    /\ logged = {"Starting News Collection"}
    /\ feed = 1
    /\ fetch_status = "ok"
    /\ remaining = 0
    /\ data \in {[NewArticle EXCEPT !.link = l] : l \in Links}
    /\ page = "none"
    /\ result = NoResult
    /\ processed_count = 0
    /\ true_saves = 0
    /\ cooldown = <<>>
    /\ dedup_queries = 0
    /\ store \in [Links -> 0..1]
    /\ ran = {}
    /\ dup = "none"
    /\ rel = "none"
    /\ saved = "none"
    /\ quota_streak = 0
    /\ sv = NoSave
    /\ indicator = 0
    /\ sheet = <<>>
    /\ rows = <<>>
    /\ new_rows = <<>>
    /\ append_attempt = 0
    /\ sheet_waits = <<>>
    /\ tag_val = <<>>
    /\ tag_list = <<>>
    /\ tag_list_again = <<>>
    /\ raw_text = <<>>
    /\ text_len = NoLengths
    /\ prompt_len = NoPrompts
    /\ html = NoHtml
    /\ extracted = NoExtract
    /\ dup_outcomes \in [url : {data.link}, query : QueryOutcomes,
                         fallback_query : QueryOutcomes, rest_query : RestOutcomes]
    /\ dup_answer = NoAnswer

\* if is_duplicate(data["link"]): continue, the methods ending as dup_outcomes says
ApplyIsDuplicate ==
    /\ pc = "is_duplicate"
    /\ dup_outcomes # NoOutcomes
    /\ LET o == dup_outcomes
           d == is_duplicate(o.url, o.query, o.fallback_query, o.rest_query)
       IN /\ dup_answer' = [ret |-> IF d THEN "True" ELSE "False",
                            tried |-> MethodsTried(o.query, o.fallback_query, o.rest_query)]
          /\ dup' = dup_answer'.ret
          /\ pc' = AfterDedup(d)
          /\ data' = IF pc' = "entry_loop" THEN NoData ELSE data
          /\ dedup_queries' =
               CountQueries(dedup_queries, QueriesSent(o.query, o.fallback_query, o.rest_query))
    /\ ran' = ran \cup {"is_duplicate"}
    /\ UNCHANGED <<indVars, startVars, fnVars, html, extracted, dup_outcomes, exit_status,
                   net_used, logged, feedVars, page, result, countVars, store, rel, saved,
                   quota_streak, sv>>

SpecDedup == InitDedup /\ [][ApplyIsDuplicate]_vars

\* ---------------------------------------------------- indicators_collector
InitIndicators ==
    /\ script = "indicators_collector"
    /\ pc = "check_env"
    /\ missing \in SUBSET IndicatorsRequired
    /\ InitCommon
    /\ NoInput

\* check_env(), the first call of main()
CheckEnv ==
    /\ pc = "check_env"
    /\ IF missing # {}
       THEN /\ logged' = logged \cup {"CRITICAL: Missing secrets"}
            /\ exit_status' = "1"
            /\ pc' = "exited"
       ELSE /\ pc' = "connect_sheets"
            /\ UNCHANGED <<logged, exit_status>>
    /\ UNCHANGED <<indVars, newsVars, startVars, applyVars, fnVars, net_used>>

\* connect_sheets(): json.loads of the credentials, then the Sheets API; an
\* exception is not caught and ends the script
ConnectSheets ==
    /\ pc = "connect_sheets"
    /\ \E outcome \in {"connected", "bad_credentials", "api_error"} :
         /\ net_used' = (outcome # "bad_credentials")
         /\ pc' = IF outcome = "connected" THEN "collect_and_write" ELSE "crashed"
         /\ exit_status' = IF outcome = "connected" THEN exit_status ELSE "1"
    /\ UNCHANGED <<indVars, newsVars, startVars, applyVars, fnVars, logged>>

Dates == {"2024-01", "2024-02"}
Header == <<"date", "value">>
Row(d) == <<d, "1.0">>

\* the worksheet get_or_create_sheet finds, or creates with its header
FoundSheets ==
    { <<Header>>, <<Header, Row("2024-01")>>, <<Header, Row("2024-02")>>,
      <<Header, Row("2024-01"), Row("2024-02")>> }

\* the rows a fetcher returns ([] on a failure)
FetchedRows ==
    {<<>>} \cup { <<Row(d)>> : d \in Dates } \cup { <<Row(d), Row(e)>> : d \in Dates, e \in Dates }

\* one block of collect_and_write up to the call of write_bulk:
\* get_or_create_sheet, then the fetch
CollectIndicator ==
    /\ pc = "collect_and_write"
    /\ indicator < NumIndicators
    /\ indicator' = indicator + 1
    /\ sheet' \in FoundSheets
    /\ rows' \in FetchedRows
    /\ new_rows' = <<>>
    /\ append_attempt' = 0
    /\ sheet_waits' = <<>>
    /\ net_used' = TRUE
    /\ pc' = "write_bulk"
    /\ UNCHANGED <<newsVars, startVars, applyVars, fnVars, exit_status, logged>>

\* sheet.col_values(1)
ColValues(sh) == { sh[i][1] : i \in 1..Len(sh) }

RECURSIVE NewRows(_, _)
\* [[date_str, val] for date_str, val in rows if date_str not in existing_dates]
NewRows(rs, existing) ==
    IF rs = <<>> THEN <<>>
    ELSE IF Head(rs)[1] \in existing THEN NewRows(Tail(rs), existing)
    ELSE <<Head(rs)>> \o NewRows(Tail(rs), existing)

\* write_bulk up to the append loop: existing dates and new_rows
WriteBulkStart ==
    /\ pc = "write_bulk"
    /\ \E read_ok \in BOOLEAN :
         new_rows' = NewRows(rows, IF read_ok THEN ColValues(sheet) ELSE {})
    /\ pc' = IF new_rows' = <<>> THEN "collect_and_write" ELSE "append_rows"
    /\ UNCHANGED <<indicator, sheet, rows, append_attempt, sheet_waits,
                   newsVars, startVars, applyVars, fnVars, exit_status, net_used, logged>>

\* a variant that waits the same time after every attempt
BackoffWaitFlat(attempt) == SheetsBackoff

\* wait = 60 * (attempt + 1)
BackoffWait(attempt) == SheetsBackoff * (attempt + 1)

\* one iteration of the append loop of write_bulk
AppendRows ==
    /\ pc = "append_rows"
    /\ append_attempt < AppendAttempts
    /\ \E outcome \in {"ok", "429", "api_error", "other_exception"} :
         CASE outcome = "ok" ->
                /\ sheet' = sheet \o new_rows
                /\ pc' = "sort"
                /\ UNCHANGED <<append_attempt, sheet_waits, exit_status>>
           [] outcome = "429" ->
                /\ sheet_waits' = Append(sheet_waits, BackoffWait(append_attempt))
                /\ append_attempt' = append_attempt + 1
                /\ pc' = IF append_attempt + 1 < AppendAttempts
                         THEN "append_rows" ELSE "collect_and_write"
                /\ UNCHANGED <<sheet, exit_status>>
           [] outcome = "api_error" ->
                /\ pc' = "collect_and_write"
                /\ UNCHANGED <<sheet, append_attempt, sheet_waits, exit_status>>
           [] OTHER ->
                /\ pc' = "crashed"
                /\ exit_status' = "1"
                /\ UNCHANGED <<sheet, append_attempt, sheet_waits>>
    /\ UNCHANGED <<indicator, rows, new_rows, newsVars, startVars, applyVars, fnVars, net_used, logged>>

\* position of a date string in the order of Python's string comparison
DateRank(d) ==
    CASE d = "2024-01" -> 1
      [] d = "2024-02" -> 2
      [] OTHER -> 0

RECURSIVE InsertSorted(_, _)
InsertSorted(r, sorted) ==
    IF sorted = <<>> THEN <<r>>
    ELSE IF DateRank(r[1]) < DateRank(Head(sorted)[1]) THEN <<r>> \o sorted
    ELSE <<Head(sorted)>> \o InsertSorted(r, Tail(sorted))

RECURSIVE SortRows(_)
\* data_rows.sort(key=lambda r: r[0]), a stable sort
SortRows(rs) ==
    IF rs = <<>> THEN <<>>
    ELSE InsertSorted(rs[Len(rs)], SortRows(SubSeq(rs, 1, Len(rs) - 1)))

\* the sort step of write_bulk: read all, clear, append header and sorted rows
SortSheet ==
    /\ pc = "sort"
    /\ \E outcome \in {"ok", "read_failed", "clear_failed", "append_failed"} :
         sheet' = CASE outcome = "read_failed" -> sheet
                    [] Len(sheet) < MinSortRows -> sheet
                    [] outcome = "clear_failed" -> sheet
                    [] outcome = "append_failed" -> <<>>
                    [] OTHER -> <<Head(sheet)>> \o SortRows(Tail(sheet))
    /\ pc' = "collect_and_write"
    /\ UNCHANGED <<indicator, rows, new_rows, append_attempt, sheet_waits,
                   newsVars, startVars, applyVars, fnVars, exit_status, net_used, logged>>

\* collect_and_write returns; create_all_charts catches its own errors
CreateAllCharts ==
    /\ pc = "collect_and_write"
    /\ indicator = NumIndicators
    /\ pc' = "done"
    /\ exit_status' = "0"
    /\ logged' = logged \cup {"Collection complete", "Charts complete"}
    /\ UNCHANGED <<indVars, newsVars, startVars, applyVars, fnVars, net_used>>

IndicatorsNext ==
    \/ CheckEnv
    \/ ConnectSheets
    \/ CollectIndicator
    \/ WriteBulkStart
    \/ AppendRows
    \/ SortSheet
    \/ CreateAllCharts

SpecIndicators == InitIndicators /\ [][IndicatorsNext]_vars

\* ------------------------------------------------------------- either script
Init == InitNews \/ InitIndicators

Next == NewsNext \/ IndicatorsNext

Spec == Init /\ [][Next]_vars

\* ================================================================== claims
LaterStages ==
    {"analyze_article_relevance", "get_page_text", "analyze_article_with_gemini",
     "save_to_notion"}

\* C1: for a candidate that is_duplicate reports as already stored, no later
\* stage runs: no relevance check, no page fetch, no analysis, no save, and
\* main is back at the entry loop (or past it) with nothing written for it.
C1_DuplicateStopsCandidate ==
    dup = "True" =>
        /\ ran = {"is_duplicate"}
        /\ ran \cap LaterStages = {}
        /\ saved = "none"
        /\ result = NoResult
        /\ pc \in {"entry_loop", "feed_loop", "done"}

\* C1 witness: the duplicate check has answered True for a candidate
C1_Witness == dup = "True" /\ "is_duplicate" \in ran /\ pc = "entry_loop"

\* C2: for a candidate whose relevance answer does not contain 'yes', main
\* never fetches the page, never runs the full analysis and never saves.
C2_IrrelevantStopsCandidate ==
    rel = "no" =>
        /\ ran \cap {"get_page_text", "analyze_article_with_gemini", "save_to_notion"} = {}
        /\ saved = "none"
        /\ result = NoResult
        /\ pc \in {"entry_loop", "feed_loop", "done"}

\* C2 witness: the model has answered 'no' for a candidate that was not a duplicate
C2_Witness == rel = "no" /\ dup = "False" /\ pc = "entry_loop"

\* C3 as stated: a save_to_notion call only follows a relevance check of the
\* same candidate in which the model returned a positive judgment.
C3_Original ==
    (pc = "save_to_notion" \/ "save_to_notion" \in ran) => rel = "yes"

\* C3 as amended: a save_to_notion call only follows a relevance check of the
\* same candidate that returned True, that is the model answered 'yes' or the
\* call of the model raised; it never follows an answer without 'yes'.
C3_SaveOnlyAfterRelevanceTrue ==
    (pc = "save_to_notion" \/ "save_to_notion" \in ran) =>
        /\ "analyze_article_relevance" \in ran
        /\ rel \in {"yes", "quota_exceeded", "error"}

\* C3 witness: a record saved for a candidate whose relevance call raised
C3_Witness == saved = "True" /\ rel = "error" /\ store["b"] > 0

\* C4: with a required configuration value missing the script logs the
\* diagnosis and exits with status 1 at its configuration check, before any
\* network call: it is never anywhere but at the check or exited.
C4_MissingConfigExitsBeforeNetwork ==
    missing # {} =>
        /\ ~net_used
        /\ pc \in {"check_env_and_exit_if_empty", "check_env", "exited"}
        /\ pc = "exited" =>
             /\ exit_status = "1"
             /\ logged \cap {"CRITICAL ERROR: Missing Secrets", "CRITICAL: Missing secrets"} # {}
        /\ pc # "exited" => exit_status = "running"

\* C4 witness: the news collector has exited for a missing value
C4_Witness ==
    script = "news_collector" /\ missing # {} /\ pc = "exited" /\ exit_status = "1"

\* C5 as stated: an error in one entry never costs the remaining entries of
\* its feed: main leaves a feed only when no entry of it is left unexamined
\* (or the limit of the run is reached).
C5_Original ==
    pc = "feed_loop" => (remaining = 0 \/ processed_count >= total_limit)

\* C6: a feed whose fetch or parse fails contributes no candidate and does not
\* end the run: the failing step leaves main at the feed loop for the next
\* feed, with the store and the count of saved records as they were.
C6_FailedFeedIsSkipped ==
    [][ (pc = "feed_loop" /\ feed' = feed + 1 /\ fetch_status' \in FetchFailures) =>
          /\ pc' = "feed_loop"
          /\ remaining' = 0
          /\ data' = data
          /\ store' = store
          /\ processed_count' = processed_count
          /\ exit_status' = "running" ]_vars

\* C6 witness: the second feed has failed after the first one saved a record
C6_Witness ==
    /\ fetch_status \in FetchFailures
    /\ feed = 2
    /\ pc = "feed_loop"
    /\ processed_count > 0
    /\ store["b"] > 0

AllAnswers(kind) ==
    sv.outs # <<>> /\ \A i \in 1..Len(sv.outs) : sv.outs[i].kind = kind

\* C7 as stated: when every pages.create call of an invocation is rate
\* limited, the writer makes max_retries attempts, sleeps between them with
\* strictly increasing waits and returns False.
C7_Original ==
    (pc = "save_returned" /\ AllAnswers("rate_limit")) =>
        /\ sv.ret = "False"
        /\ Len(sv.sent) = max_retries
        /\ Len(sv.waits) = max_retries - 1
        /\ \A i \in 1..(Len(sv.waits) - 1) : sv.waits[i] < sv.waits[i + 1]

\* attempt i was answered with a schema error
SchemaErrorAt(i) == sv.outs[i].kind = "unknown_prop"

\* after the schema error of attempt i: a further attempt is made, it sends the
\* properties of attempt i without the named one, and if it is accepted the
\* call returns True and the record created carries exactly those properties
RetriedWithout(i) ==
    LET named == sv.outs[i].prop
        kept  == (DOMAIN sv.sent[i]) \ {named}
    IN /\ sv.ret # "running" => Len(sv.sent) > i
       /\ Len(sv.sent) > i =>
            /\ DOMAIN sv.sent[i + 1] = kept
            /\ \A k \in kept : sv.sent[i + 1][k] = sv.sent[i][k]
       /\ (Len(sv.outs) > i /\ sv.outs[i + 1].kind = "ok") =>
            /\ sv.ret = "True"
            /\ pc = "save_returned"
            /\ DOMAIN sv.created[Len(sv.created)] = kept
            /\ \A k \in kept : sv.created[Len(sv.created)][k] = sv.sent[i][k]

\* C8 as stated: whichever attempt the schema error occurs on, the writer
\* retries once without the named property.
C8_Original ==
    \A i \in 1..Len(sv.outs) : SchemaErrorAt(i) => RetriedWithout(i)

\* C8 as amended: a schema error on the first or the second attempt is
\* followed by a retry without the named property, and an accepted retry
\* returns True with a record that carries every other property.
C8_RetryWithoutNamedProperty ==
    \A i \in 1..Len(sv.outs) :
        (SchemaErrorAt(i) /\ i < max_retries) => RetriedWithout(i)

\* C8 witness: "brand" was sent and rejected, the retry without it was accepted
C8_Witness ==
    /\ Len(sv.outs) = 2
    /\ sv.outs[1] = [kind |-> "unknown_prop", prop |-> "brand"]
    /\ sv.outs[2].kind = "ok"
    /\ "brand" \in DOMAIN sv.sent[1]
    /\ sv.ret = "True"

\* C9: one invocation makes at most max_retries pages.create calls for any
\* mix of answers and ends by returning True or False: while it is running
\* fewer than max_retries calls were made; schema errors on all attempts
\* return False.
C9_BoundedAttempts ==
    /\ Len(sv.sent) <= max_retries
    /\ sv.ret \in {"running", "True", "False"}
    /\ sv.ret = "running" => (Len(sv.sent) < max_retries /\ pc = "pages.create")
    /\ sv.ret # "running" => pc = "save_returned"
    /\ (Len(sv.outs) = max_retries /\ AllAnswers("unknown_prop")) => sv.ret = "False"

\* C9 witness: three schema errors in a row
C9_Witness ==
    Len(sv.outs) = max_retries /\ AllAnswers("unknown_prop") /\ sv.ret = "False"

\* C10 as stated: after three consecutive quota errors of the classifier the
\* run ends early: no further stage runs, no further entry or feed is taken,
\* and the store stays as it is.
C10_Original ==
    [][ quota_streak >= 3 =>
          /\ pc' \in {"entry_loop", "feed_loop", "done"}
          /\ remaining' = remaining
          /\ feed' = feed
          /\ store' = store ]_vars

\* C11: in every reachable state processed_count equals the number of
\* save_to_notion calls that returned True so far and is at most total_limit;
\* once it has reached total_limit the run is between candidates or over, and
\* no later step examines a candidate: no entry is taken, no feed is fetched,
\* no stage runs and nothing is written to the store
C11_LimitStopsRun ==
    /\ [](/\ processed_count = true_saves
          /\ processed_count <= total_limit
          /\ (processed_count >= total_limit
                => pc \in {"entry_loop", "feed_loop", "done"}))
    /\ [][processed_count >= total_limit
            => UNCHANGED <<feed, remaining, data, ran, store, processed_count>>]_vars

\* the run ended at the limit, an entry of the last feed left unexamined
C11_Witness ==
    /\ pc = "done"
    /\ processed_count = total_limit
    /\ true_saves = total_limit
    /\ remaining > 0

\* C12: within one run no two records are written to the store with the same
\* source link, whatever the duplicate queries answer: for every link the
\* store holds at most one record more than before the run
C12_Original ==
    \A l \in Links : store[l] - InitialStore[l] <= 1

\* the three ways is_duplicate can query the store
QueryMethods == {"data_sources.query", "databases.query", "REST"}

\* C13: the known identity keys are fetched once per run, not once per
\* candidate: however many candidates are examined, the run sends no more
\* duplicate-check queries than one fetch takes (one per query method)
C13_Original ==
    dedup_queries <= Cardinality(QueryMethods)

\* C14: clean_multi_select is idempotent: normalizing the tag list it returned
\* (the tag names written as one comma-separated value) returns the same tag
\* list, for every input value
C14_Original ==
    pc = "renormalized" => tag_list_again = tag_list

\* the tag names are free of empty names and of blanks at either end
WellFormedTags(ts) ==
    \A i \in 1..Len(ts) :
        /\ ts[i] # <<>>
        /\ ts[i][1] \notin Whitespace
        /\ ts[i][Len(ts[i])] \notin Whitespace

\* C15: for every input the result of clean_multi_select has no empty tag and
\* no tag with a blank at either end; parts split at "," and at the
\* ideographic comma keep their order; and for the brand "K, C" of a new,
\* relevant candidate the save creates exactly one record, whose brand tags
\* are K, C in that order
C15_TagsAreSplitTrimmedOrdered ==
    /\ pc # "clean_multi_select" => WellFormedTags(tag_list)
    /\ (pc # "clean_multi_select" /\ tag_val = <<"K", ",", " ", "C">>)
         => tag_list = << <<"K">>, <<"C">> >>
    /\ (pc # "clean_multi_select" /\ tag_val = <<"C", IdeographicComma, "K">>)
         => tag_list = << <<"C">>, <<"K">> >>
    /\ (pc = "save_returned" /\ tag_val = <<"K", ",", " ", "C">>)
         => /\ saved = "True"
            /\ Len(sv.created) = 1
            /\ store["b"] = 1
            /\ "brand" \in DOMAIN sv.created[1]
            /\ sv.created[1]["brand"] = << <<"K">>, <<"C">> >>

\* the record for brand "K, C" has been written
C15_Witness ==
    /\ pc = "save_returned"
    /\ tag_val = <<"K", ",", " ", "C">>
    /\ Len(sv.created) = 1
    /\ tag_list = << <<"K">>, <<"C">> >>

\* the response is a JSON object between an opening fence, with or without a
\* language tag, and a closing fence
FencedJson(text) ==
    \E tag \in FenceTags, nl1 \in LineBreaks, nl2 \in LineBreaks :
        Strip(text) = Fenced(tag, nl1, JsonObject, nl2)

\* C16: when the response is valid JSON wrapped in code-fence markers (an
\* opening fence with an optional language tag, a closing fence),
\* analyze_article_with_gemini returns the parsed object's fields, not the
\* parse-failure fallback
C16_Original ==
    (pc = "save_to_notion" /\ FencedJson(raw_text)) => result.kind = "parsed"

\* the response holds no JSON object, bare or between fences
NoJsonIn(text) == \A i \in 1..Len(text) : text[i] # JsonObject

\* C17: when the response is not valid JSON, analyze_article_with_gemini
\* returns a result (not None, no exception) with empty brand, segment and
\* region, an empty bullet_summary and a full_body of at most 2000 characters
\* of the raw response, and main goes on to save_to_notion for the candidate
C17_FallbackIsSaved ==
    (pc # "generate_content" /\ NoJsonIn(raw_text)) =>
        \/ /\ pc = "save_to_notion"
           /\ result.kind = "parse_fallback"
           /\ result.brand = <<>> /\ result.segment = <<>> /\ result.region = <<>>
           /\ result.bullet_summary = <<>>
           /\ result.full_body <= FallbackBodyCap
           /\ result.full_body <= TextLength(raw_text)
        \/ /\ pc = "entry_loop"
           /\ "save_to_notion" \in ran
           /\ saved \in {"True", "False"}

\* the fallback of a long response that is no JSON has been saved
C17_Witness ==
    /\ pc = "entry_loop"
    /\ raw_text = <<LongText>>
    /\ saved = "True"
    /\ store["b"] = 1

RECURSIVE BodyBlockLengths(_)
BodyBlockLengths(blocks) ==
    IF blocks = <<>> THEN <<>>
    ELSE (IF Head(blocks).section = "body" /\ Head(blocks).type = "paragraph"
          THEN <<Head(blocks).len>> ELSE <<>>) \o BodyBlockLengths(Tail(blocks))

RECURSIVE Sum(_)
Sum(ns) == IF ns = <<>> THEN 0 ELSE Head(ns) + Sum(Tail(ns))

\* C19: when the body to store is longer than the block limit (2000
\* characters), save_to_notion splits it into several ordered blocks whose
\* concatenation is the whole body: every block is within the limit and the
\* blocks together have the length of the body, nothing is dropped
C19_Original ==
    (sv.ret # "none" /\ result.full_body > BlockLimit) =>
        LET lens == BodyBlockLengths(sv.children)
        IN /\ Len(lens) > 1
           /\ \A i \in 1..Len(lens) : lens[i] <= BlockLimit
           /\ Sum(lens) = result.full_body

\* C20: a save_to_notion call that returned True has created exactly one
\* record in the store and a call that returned False none, whatever the
\* pages.create attempts answered (an attempt the store commits but reports
\* as an error included)
C20_Original ==
    pc = "save_returned" =>
        /\ Len(sv.created) = (IF sv.ret = "True" THEN 1 ELSE 0)
        /\ store[data.link] - InitialStore[data.link] = (IF sv.ret = "True" THEN 1 ELSE 0)

\* C21: once a save has returned True, main has slept at least 15 seconds
\* before it touches the next entry, so a cooldown of at least 15 seconds lies
\* between any two successful writes; when that save made processed_count a
\* multiple of three, a 60-second sleep was taken on top of it.
C21_CooldownAfterWrite ==
    true_saves > 0 =>
        /\ Len(cooldown) > 0
        /\ cooldown[Len(cooldown)] >= ArticleSleep
        /\ processed_count % LongSleepEvery = 0 =>
               /\ cooldown[1] = LongSleep
               /\ Sum(cooldown) >= LongSleep + ArticleSleep

C21_Witness ==
    /\ true_saves = 2 * LongSleepEvery
    /\ cooldown = <<LongSleep, ArticleSleep>>
    /\ pc = "is_duplicate"

\* the stages of one candidate in the order main runs them (lines 655-675)
StageOrder ==
    <<"is_duplicate", "analyze_article_relevance", "get_page_text",
      "analyze_article_with_gemini", "save_to_notion">>

\* the first k stages
FirstStages(k) == {StageOrder[i] : i \in 1..k}

TierRank(tier) ==
    CASE tier = "article" -> 1
      [] tier = "main_content" -> 2
      [] tier = "all_paragraphs" -> 3
      [] tier = "full_text" -> 4

\* C23: get_page_text tries its tiers in the fixed order <article> paragraphs,
\* main-content container paragraphs, all page paragraphs, flattened
\* whole-page text; a tier is tried only if every tier tried before it gave at
\* most 200 characters; the text returned is that of the first paragraph tier
\* with more than 200 characters, else the flattened text, cut to 10000
\* characters; a status other than 200 or an exception gives the empty text.
C23_TiersInOrder ==
    "get_page_text" \in ran =>
        LET t == extracted.tried
            n == Len(t)
        IN /\ extracted.text <= PageTextCap
           /\ html.status # "200" => extracted.text = 0 /\ n = 0
           /\ html.status = "200" =>
                /\ n > 0
                /\ \A i \in 1..(n - 1) :
                     /\ TierRank(t[i].tier) <= TierRank(t[i + 1].tier)
                     /\ t[i].len <= TierThreshold
                /\ t[n].tier = extracted.tier
                /\ extracted.text = (IF t[n].len > PageTextCap THEN PageTextCap ELSE t[n].len)
                /\ t[n].tier # "full_text" => t[n].len > TierThreshold
                /\ t[n].tier = "full_text" =>
                     /\ t[n].len = html.flat
                     /\ {"all_paragraphs", "full_text"} \subseteq {t[i].tier : i \in 1..n}
                     /\ html.has_article => t[1].tier = "article"
                /\ html.has_article /\ html.article > TierThreshold =>
                     extracted.tier = "article"

\* C23 witness: a page whose <article> and first container are too short and
\* whose second container gives more than the cap
C23_Witness ==
    /\ "get_page_text" \in ran
    /\ html.status = "200"
    /\ Len(extracted.tried) = 3
    /\ extracted.tier = "main_content"
    /\ extracted.tried[1].tier = "article"
    /\ extracted.text = PageTextCap

StepRank(place) ==
    CASE place = "check_env_and_exit_if_empty" -> 10
      [] place = "get_best_model" -> 9
      [] place = "get_db_properties" -> 8
      [] place = "is_duplicate" -> 7
      [] place = "analyze_article_relevance" -> 6
      [] place = "get_page_text" -> 5
      [] place = "analyze_article_with_gemini" -> 4
      [] place = "save_to_notion" -> 3
      [] place = "entry_loop" -> 2
      [] place = "feed_loop" -> 1
      [] OTHER -> 0

\* what is left of the run: feeds not yet fetched, entries of the feed not
\* yet taken, steps left for the entry
Variant == <<NumFeeds - feed, remaining, StepRank(pc)>>

\* the lexicographic order on triples
Less(a, b) ==
    \/ a[1] < b[1]
    \/ a[1] = b[1] /\ a[2] < b[2]
    \/ a[1] = b[1] /\ a[2] = b[2] /\ a[3] < b[3]

\* C25: every run of news_collector.main terminates when every call returns:
\* every step leaves strictly less of the run to do (no call is repeated
\* without bound, whatever errors it answers), and a run whose configuration
\* is complete always reaches the report 'COLLECTION COMPLETE'.
C25_RunTerminates ==
    /\ [][Less(Variant', Variant)]_vars
    /\ missing = {} => <>(pc = "done" /\ "COLLECTION COMPLETE" \in logged)

\* C25 witness: the run completed although the last save met rate-limit
\* errors on every attempt and the classifier had answered quota errors
C25_Witness ==
    /\ pc = "done"
    /\ "COLLECTION COMPLETE" \in logged
    /\ saved = "False"
    /\ feed = NumFeeds

\* the dates of the data rows of a sheet, the header left out
DataDates(sh) == [i \in 1..(Len(sh) - 1) |-> sh[i + 1][1]]

\* C26 as stated: whatever rows write_bulk is given and whether or not
\* column A could be read, no date occurs in two data rows of a sheet that
\* started without duplicate dates.
C26_Original ==
    \A i, j \in 1..Len(DataDates(sheet)) :
        i # j => DataDates(sheet)[i] # DataDates(sheet)[j]

\* how many times the row r occurs in the sheet sh
Occurrences(r, sh) == Cardinality({i \in 1..Len(sh) : sh[i] = r})

\* C27 as stated: the sort step of write_bulk never loses a row: whether it
\* succeeds or fails at reading, clearing or re-appending, every row that was
\* in the sheet before it is in the sheet after it, as many times; and the
\* header stays the first row.
C27_Original ==
    [][pc = "sort" =>
         /\ \A i \in 1..Len(sheet) : Occurrences(sheet[i], sheet') = Occurrences(sheet[i], sheet)
         /\ Len(sheet') > 0 /\ sheet'[1] = sheet[1]]_vars

\* the answer of a query for the url against the store: results is not empty
Stored(url) == store[url] > 0

\* C28: is_duplicate tries data_sources.query, then databases.query, then the
\* REST call, and goes on to the next method only when the one before was
\* unavailable or raised; it returns the answer of the first method that
\* completes (True exactly when the store holds the url), and False when no
\* method completes or the REST call answers a status other than 200; it
\* always returns a value.
C28_FirstAnswerWins ==
    dup_answer # NoAnswer =>
        LET o == dup_outcomes
            t == dup_answer.tried
            ends == <<o.query, o.fallback_query, o.rest_query>>
        IN /\ dup_answer.ret \in {"True", "False"}
           /\ Len(t) \in 1..3
           /\ t = SubSeq(QueryOrder, 1, Len(t))
           /\ \A i \in 1..(Len(t) - 1) : ends[i] \in {"unavailable", "raised"}
           /\ ends[Len(t)] = "answered" =>
                (dup_answer.ret = "True") = Stored(o.url)
           /\ ends[Len(t)] # "answered" =>
                /\ Len(t) = 3
                /\ dup_answer.ret = "False"

\* C28 witness: data_sources.query raised, databases.query was unavailable
\* and the REST call found the url in the store
C28_Witness ==
    /\ dup_outcomes.query = "raised"
    /\ dup_outcomes.fallback_query = "unavailable"
    /\ dup_outcomes.rest_query = "answered"
    /\ dup_answer.ret = "True"
    /\ dup_answer.tried = QueryOrder

\* main takes an entry with title and link whose published time is earlier
\* than the cutoff, 24 hours before the run started
TakeOldEntry == TakeEntryIn([AnyWorld EXCEPT !.titled = {TRUE}, !.pub = {"old"}])

\* main takes an entry with title and link and no published time
TakeUndatedEntry == TakeEntryIn([AnyWorld EXCEPT !.titled = {TRUE}, !.pub = {"none"}])

\* main takes an entry whose title or link is empty
TakeUntitledEntry == TakeEntryIn([AnyWorld EXCEPT !.titled = {FALSE}])

\* C29: an entry published before the cutoff is skipped where it is taken:
\* main is back at the entry loop with no candidate, so it is never
\* dedup-checked, classified or saved; so is an entry whose title or link is
\* empty; an entry without a published time becomes the candidate, with the
\* current UTC time as its date, and that date is the one save_to_notion sends.
C29_OnlyRecentEntries ==
    /\ [][/\ TakeOldEntry => (pc' = "entry_loop" /\ data' = NoData /\ ran' = {})
          /\ TakeUntitledEntry => (pc' = "entry_loop" /\ data' = NoData /\ ran' = {})
          /\ TakeUndatedEntry => (pc' = "is_duplicate" /\ data'.date = "now")]_vars
    /\ [](pc \in LaterStages \cup {"is_duplicate"} =>
            /\ data # NoData
            /\ data.date \in {"now", "entry_dt"}
            /\ BuildProps(result, data)["date"] = <<data.date>>)

\* C29 witness: an entry without a published time has reached the save, to
\* be stored with the current time
C29_Witness ==
    /\ pc = "save_to_notion"
    /\ data.date = "now"
    /\ result.kind = "parsed"
    /\ SaveStart(result, data).props["date"] = <<"now">>

\* the blocks of a page that carry text of the article or of the classifier
TextBlocks(children) ==
    {i \in 1..Len(children) : children[i].type \in {"bulleted_list_item", "paragraph"}}

\* C30: everything save_to_notion sends respects the size limits of the
\* store: every bullet and the body paragraph have at most 2000 characters,
\* there are at most 3 bullets, the title property has at most 100 characters
\* and the link text at most 50; the source link paragraph is always the last
\* block, also when the summary and the body are empty.
C30_SizesRespected ==
    sv # NoSave =>
        LET c == sv.children
            n == Len(c)
        IN /\ \A i \in TextBlocks(c) : c[i].len <= BlockLimit
           /\ Cardinality({i \in 1..n : c[i].type = "bulleted_list_item"}) <= MaxBullets
           /\ sv.title <= TitleCap
           /\ n >= 1
           /\ c[n].section = "link" /\ c[n].type = "paragraph"
           /\ c[n].len <= LinkTextCap
           /\ \A i \in 1..(n - 1) : c[i].section # "link"
           /\ (result.bullet_summary = <<>> /\ result.full_body = 0) => n = 1

\* C30 witness: a page sent for a result of four bullets, one of 2500
\* characters, a body of 2600 characters and a title of 120
C30_Witness ==
    /\ sv.outs # <<>>
    /\ Len(result.bullet_summary) > MaxBullets
    /\ result.full_body > BlockLimit
    /\ data.title > TitleCap
    /\ sv.title = TitleCap
    /\ \E i \in 1..Len(sv.children) :
         sv.children[i].type = "bulleted_list_item" /\ sv.children[i].len = BulletCap
    /\ sv.children[Len(sv.children)].len = LinkTextCap

====
